---- MODULE Spec2Model ----
(***************************************************************************)
(* rqt_logger_level: LoggerLevelServiceCaller                              *)
(* (src/src/rqt_logger_level/logger_level_service_caller.py).              *)
(*                                                                         *)
(* Python strings are sequences of code points, so that str.lower(),       *)
(* str.upper(), str.format() and sorted() are computed, not assumed.       *)
(***************************************************************************)
EXTENDS Integers, Sequences, FiniteSets, TLC

(***************************************************************************)
(* Bounds of the model.                                                    *)
(***************************************************************************)
\* longest sequence of live node names the ROS graph reports in one query
MaxGraphNodes == 3
\* most clients the rqt node is let to accumulate before no new call starts
MaxClients == 3
\* the per-call warning count saturates here
MaxWarnings == 3
\* largest step of the wall clock between two reads of time.time()
MaxTick == 2

(***************************************************************************)
(* String literals of the program, as code points.                         *)
(***************************************************************************)
S_a == <<97>>
S_b == <<98>>
S_c == <<99>>
S_DEBUG == <<68, 69, 66, 85, 71>>
S_debug == <<100, 101, 98, 117, 103>>
S_INFO == <<73, 78, 70, 79>>
S_WARN == <<87, 65, 82, 78>>
S_ERROR == <<69, 82, 82, 79, 82>>
S_FATAL == <<70, 65, 84, 65, 76>>
S_UNSET == <<85, 78, 83, 69, 84>>
S_TRACE == <<84, 82, 65, 67, 69>>
S_empty == <<>>
S_node == <<110, 111, 100, 101>>
S_slash == <<47>>
S_set_logger_level == <<47, 115, 101, 116, 95, 108, 111, 103, 103, 101, 114, 95, 108, 101, 118, 101, 108>>
S_get_logger_level == <<47, 103, 101, 116, 95, 108, 111, 103, 103, 101, 114, 95, 108, 101, 118, 101, 108>>

\* service type names are only tested for membership in a type list
T_SetLoggerLevel == "rcl_interfaces/SetLoggerLevel"
T_GetLoggerLevel == "rcl_interfaces/GetLoggerLevel"

(***************************************************************************)
(* Python built-ins used by the program.                                   *)
(***************************************************************************)
\* str.lower() on one code point: 'A'..'Z' -> 'a'..'z'
LowerChar(c) == IF c >= 65 /\ c <= 90 THEN c + 32 ELSE c
\* str.upper() on one code point: 'a'..'z' -> 'A'..'Z'
UpperChar(c) == IF c >= 97 /\ c <= 122 THEN c - 32 ELSE c
Lower(s) == [i \in 1..Len(s) |-> LowerChar(s[i])]
Upper(s) == [i \in 1..Len(s) |-> UpperChar(s[i])]

\* str < str: lexicographic on code points, a proper prefix is smaller
RECURSIVE StrLess(_, _)
StrLess(s, t) ==
    IF t = <<>> THEN FALSE
    ELSE IF s = <<>> THEN TRUE
    ELSE IF Head(s) # Head(t) THEN Head(s) < Head(t)
    ELSE StrLess(Tail(s), Tail(t))

\* one insertion of x into the sorted list l, after the elements equal to it
RECURSIVE Insert(_, _)
Insert(x, l) ==
    IF l = <<>> THEN <<x>>
    ELSE IF StrLess(x, Head(l)) THEN <<x>> \o l
    ELSE <<Head(l)>> \o Insert(x, Tail(l))

\* sorted(list of str): ascending, every element kept (duplicates included)
RECURSIVE Sorted(_)
Sorted(l) == IF l = <<>> THEN <<>> ELSE Insert(l[Len(l)], Sorted(SubSeq(l, 1, Len(l) - 1)))

\* dict(list of (key, value)): a later pair of the same key replaces the earlier
RECURSIVE Dict(_)
Dict(pairs) ==
    IF pairs = <<>> THEN <<>>
    ELSE LET rest == Dict(SubSeq(pairs, 1, Len(pairs) - 1))
             last == pairs[Len(pairs)]
         IN  [k \in (DOMAIN rest) \cup {last[1]} |-> IF k = last[1] THEN last[2] ELSE rest[k]]

\* x in list
InList(x, l) == \E i \in 1..Len(l) : l[i] = x

(***************************************************************************)
(* State.                                                                  *)
(***************************************************************************)
VARIABLES
    node_names,     \* self._node_names
    current_levels, \* self._current_levels: dict node name -> level name
    graph_nodes,    \* ROS graph: the live node names, as get_node_names() lists them
    graph_services, \* ROS graph: advertised service name -> its type list
    listing_current, \* no change of the ROS graph since the last discovery
    pc,             \* where the caller's thread is: idle, or inside a call
    call,           \* the call in progress, or the last one made
    prev,           \* the call made before it
    clients,        \* number of clients the rqt node holds (create_client adds one)
    rpc,            \* the client operations the call has made so far
    warnings,       \* qWarning calls made by the call so far (saturating)
    future,         \* the future call_async returned
    time_ellapsed,  \* local time_ellapsed of the completion wait
    service_ready,  \* cli.service_is_ready(), while the call waits for the service
    rclpy_ok,       \* rclpy.ok(): FALSE once shutdown was signalled
    cli,            \* the service name the call's client is bound to
    request,        \* the request object the call has built
    remote,         \* per node process: the logger and level its service last set
    served,         \* the service has executed the dispatched request
    node_items,     \* widget: the texts of node_list's items
    node_row,       \* widget: node_list.currentRow(), -1 for none
    level_items,    \* widget: the texts of level_list's items
    level_row,      \* widget: level_list.currentRow(), -1 for none
    logging_call,   \* widget: the last rclpy.logging.set_logger_level(name, level)
    ui_event        \* widget: how the last event ended: handled, ignored, or in a qWarning

discovery_vars == <<node_names, graph_nodes, graph_services, listing_current>>
caller_vars == <<current_levels, pc, call, prev, clients, rpc, warnings, future,
                 time_ellapsed, service_ready, rclpy_ok, cli, request, remote, served>>
remote_vars == <<remote, served>>
widget_vars == <<node_items, node_row, level_items, level_row, logging_call, ui_event>>
request_vars == <<cli, request>>
vars == <<node_names, current_levels, graph_nodes, graph_services, listing_current,
          pc, call, prev, clients, rpc, warnings, future, time_ellapsed,
          service_ready, rclpy_ok, cli, request, remote, served,
          node_items, node_row, level_items, level_row, logging_call, ui_event>>

\* names of processes that may be alive
NodeNames == {S_a, S_b, S_c}

\* '/{}/set_logger_level'.format(node)
SetServiceName(node) == S_slash \o node \o S_set_logger_level
\* '/{}/get_logger_level'.format(node_name)
GetServiceName(node) == S_slash \o node \o S_get_logger_level

\* the service names the graph may advertise, in the order the graph lists them
GraphServiceNames ==
    <<SetServiceName(S_a), SetServiceName(S_b), SetServiceName(S_c), GetServiceName(S_a)>>
\* the type lists a service may be advertised with
GraphTypeLists == {<<T_GetLoggerLevel>>, <<T_GetLoggerLevel, T_SetLoggerLevel>>}

Range(f) == {f[i] : i \in DOMAIN f}

\* self._node.get_service_names_and_types(): the list of (name, types) pairs
RECURSIVE ServiceList(_, _)
ServiceList(adv, i) ==
    IF i > Len(GraphServiceNames) THEN <<>>
    ELSE (IF GraphServiceNames[i] \in DOMAIN adv
          THEN <<(<<GraphServiceNames[i], adv[GraphServiceNames[i]]>>)>>
          ELSE <<>>) \o ServiceList(adv, i + 1)

\* no call made yet
NoCall == [op |-> "none", node |-> S_empty, level |-> S_empty, status |-> "none",
           ret |-> FALSE, levels0 |-> <<>>, clients0 |-> 0]
\* no request dispatched
NoFuture == [st |-> "absent", logger_level |-> 0]
\* no rclpy.logging.set_logger_level call made
NoLoggingCall == [name |-> S_empty, level |-> 0]
\* no request built
NoRequest == [name |-> S_empty]
\* nodes the widget asks about
CallNodes == {S_a, S_b}
\* a node process whose service has set no logger level yet
NoLoggerSet == [logger |-> S_empty, level |-> 0]

Init ==
    /\ node_names = <<>>
    /\ current_levels = <<>>
    /\ graph_nodes = <<>>
    /\ graph_services = <<>>
    /\ listing_current = FALSE
    /\ pc = "idle"
    /\ call = NoCall
    /\ prev = NoCall
    /\ clients = 0
    /\ rpc = {}
    /\ warnings = 0
    /\ future = NoFuture
    /\ time_ellapsed = 0
    /\ service_ready = FALSE
    /\ rclpy_ok = TRUE
    /\ cli = S_empty
    /\ request = NoRequest
    /\ remote = [n \in CallNodes |-> NoLoggerSet]
    /\ served = FALSE
    /\ node_items = <<>>
    /\ node_row = -1
    /\ level_items = <<>>
    /\ level_row = -1
    /\ logging_call = NoLoggingCall
    /\ ui_event = "constructed"

(***************************************************************************)
(* The ROS graph changes under the program.                                *)
(***************************************************************************)
NodeAppears ==
    \E n \in NodeNames :
        /\ Len(graph_nodes) < MaxGraphNodes
        /\ graph_nodes' = Append(graph_nodes, n)
        /\ listing_current' = FALSE
        /\ UNCHANGED <<node_names, graph_services, caller_vars, widget_vars>>

NodeDisappears ==
    \E i \in 1..Len(graph_nodes) :
        /\ graph_nodes' = SubSeq(graph_nodes, 1, i - 1) \o SubSeq(graph_nodes, i + 1, Len(graph_nodes))
        /\ listing_current' = FALSE
        /\ UNCHANGED <<node_names, graph_services, caller_vars, widget_vars>>

ServiceAdvertised ==
    \E s \in Range(GraphServiceNames) \ DOMAIN graph_services, types \in GraphTypeLists :
        /\ graph_services' = [k \in DOMAIN graph_services \cup {s} |->
                                  IF k = s THEN types ELSE graph_services[k]]
        /\ listing_current' = FALSE
        /\ UNCHANGED <<node_names, graph_nodes, caller_vars, widget_vars>>

ServiceWithdrawn ==
    \E s \in DOMAIN graph_services :
        /\ graph_services' = [k \in DOMAIN graph_services \ {s} |-> graph_services[k]]
        /\ listing_current' = FALSE
        /\ UNCHANGED <<node_names, graph_nodes, caller_vars, widget_vars>>

(***************************************************************************)
(* get_node_names                                                          *)
(***************************************************************************)
\* the test with the check of the service's type left out
HasSetLoggerLevel_AnyType(node_name, service_names_and_types) ==
    SetServiceName(node_name) \in DOMAIN service_names_and_types

\* the test of the loop body: the node's service is a key of the dict and the
\* expected type is in its type list
HasSetLoggerLevel(node_name, service_names_and_types) ==
    LET service_topic == SetServiceName(node_name)
    IN  /\ service_topic \in DOMAIN service_names_and_types
        /\ InList(T_SetLoggerLevel, service_names_and_types[service_topic])

\* the for loop over the sorted names, appending the names that pass the test
RECURSIVE CollectNodeNames(_, _)
CollectNodeNames(nodes, service_names_and_types) ==
    IF nodes = <<>> THEN <<>>
    ELSE (IF HasSetLoggerLevel(Head(nodes), service_names_and_types)
          THEN <<Head(nodes)>> ELSE <<>>)
         \o CollectNodeNames(Tail(nodes), service_names_and_types)

GetNodeNames ==
    LET nodes == Sorted(graph_nodes)
        service_names_and_types == Dict(ServiceList(graph_services, 1))
    IN  /\ node_names' = CollectNodeNames(nodes, service_names_and_types)
        /\ listing_current' = TRUE
        /\ UNCHANGED <<graph_nodes, graph_services, caller_vars, widget_vars>>

NextDiscovery ==
    \/ NodeAppears
    \/ NodeDisappears
    \/ ServiceAdvertised
    \/ ServiceWithdrawn
    \/ GetNodeNames

SpecDiscovery == Init /\ [][NextDiscovery]_vars

(***************************************************************************)
(* The inputs of the caller's operations and the collaborators' answers.   *)
(***************************************************************************)
\* level texts passed to send_logger_change_message
LevelInputs == {S_DEBUG, S_debug, S_INFO, S_TRACE}
\* logger_level values a GetLoggerLevel response carries
ResponseLevels == {10, 20}
\* the two-second timeout of the completion wait
Timeout == 2

\* getattr(LoggerLevelType, name): the level code, for the names that are attributes
LoggerLevelTypeNames == {S_DEBUG, S_INFO, S_WARN, S_ERROR, S_FATAL}
LoggerLevelType(name) ==
    CASE name = S_DEBUG -> 10
      [] name = S_INFO -> 20
      [] name = S_WARN -> 30
      [] name = S_ERROR -> 40
      [] name = S_FATAL -> 50

\* LoggingSeverity(value).name
LoggingSeverityName(value) ==
    CASE value = 0 -> S_UNSET
      [] value = 10 -> S_DEBUG
      [] value = 20 -> S_INFO
      [] value = 30 -> S_WARN
      [] value = 40 -> S_ERROR
      [] value = 50 -> S_FATAL

Min(a, b) == IF a < b THEN a ELSE b
\* n more qWarning calls
Warn(n) == Min(warnings + n, MaxWarnings)

\* what is kept of a call once the next one starts
Summary(c) == [op |-> c.op, node |-> c.node, level |-> c.level, status |-> c.status,
               ret |-> c.ret, levels0 |-> <<>>, clients0 |-> 0]
NewCall(op, node, level) ==
    [op |-> op, node |-> node, level |-> level, status |-> "running", ret |-> FALSE,
     levels0 |-> current_levels, clients0 |-> clients]
Returned(c, value) == [c EXCEPT !.status = "returned", !.ret = value]
Raised(c) == [c EXCEPT !.status = "raised"]

\* dict[key] = value
DictSet(d, key, value) == [k \in DOMAIN d \cup {key} |-> IF k = key THEN value ELSE d[k]]

(***************************************************************************)
(* send_logger_change_message                                              *)
(***************************************************************************)
\* the request built without its logger_level, which then keeps its default
SetRequest_NoLevel(node, level) == [name |-> S_node, logger_level |-> 0]

\* service_class.Request(name='node', logger_level=logger_level), the level
\* being getattr(LoggerLevelType, level.upper())
SetRequest(node, level) == [name |-> S_node, logger_level |-> LoggerLevelType(Upper(level))]

\* service_class.Request(name=node_name)
GetRequest(node_name) == [name |-> node_name]

\* the guard comparing the two texts as they are
WouldNotChange_CaseSensitive(levels, node, level) ==
    node \in DOMAIN levels /\ levels[node] = level

\* the guard: the cached level of the node is the requested one, case ignored
WouldNotChange(levels, node, level) ==
    node \in DOMAIN levels /\ Lower(levels[node]) = Lower(level)

\* up to create_client: the guard returns False, an unknown level name raises
\* AttributeError, otherwise the client is created and the wait for the
\* service starts
SendBegin ==
    \E node \in CallNodes, level \in LevelInputs :
        /\ pc = "idle"
        /\ prev' = Summary(call)
        /\ warnings' = 0
        /\ future' = NoFuture
        /\ time_ellapsed' = 0
        /\ IF WouldNotChange(current_levels, node, level)
           THEN /\ call' = Returned(NewCall("send", node, level), FALSE)
                /\ rpc' = {}
                /\ cli' = S_empty
                /\ request' = NoRequest
                /\ UNCHANGED <<pc, clients, service_ready>>
           ELSE IF Upper(level) \notin LoggerLevelTypeNames
           THEN /\ call' = Raised(NewCall("send", node, level))
                /\ rpc' = {}
                /\ cli' = S_empty
                /\ request' = NoRequest
                /\ UNCHANGED <<pc, clients, service_ready>>
           ELSE /\ clients < MaxClients
                /\ call' = NewCall("send", node, level)
                /\ request' = SetRequest(node, level)
                /\ cli' = SetServiceName(node)
                /\ clients' = clients + 1
                /\ rpc' = {"create_client"}
                /\ pc' = "wait_for_service"
                /\ service_ready' \in BOOLEAN
        /\ served' = FALSE
        /\ UNCHANGED <<current_levels, rclpy_ok, remote, discovery_vars, widget_vars>>

(***************************************************************************)
(* get_logger_level                                                        *)
(***************************************************************************)
\* up to create_client
GetBegin ==
    \E node_name \in CallNodes :
        /\ pc = "idle"
        /\ clients < MaxClients
        /\ prev' = Summary(call)
        /\ call' = NewCall("get", node_name, S_empty)
        /\ request' = GetRequest(node_name)
        /\ cli' = GetServiceName(node_name)
        /\ clients' = clients + 1
        /\ rpc' = {"create_client"}
        /\ warnings' = 0
        /\ future' = NoFuture
        /\ time_ellapsed' = 0
        /\ pc' = "wait_for_service"
        /\ service_ready' \in BOOLEAN
        /\ served' = FALSE
        /\ UNCHANGED <<current_levels, rclpy_ok, remote, discovery_vars, widget_vars>>

(***************************************************************************)
(* The two loops, the same in both operations.                             *)
(***************************************************************************)
\* one evaluation of `while not cli.wait_for_service(...)`: a warning and
\* another round while the service is not ready; otherwise call_async, and
\* the first reading of the elapsed time
WaitForService ==
    /\ pc = "wait_for_service"
    /\ IF service_ready
       THEN /\ rpc' = rpc \cup {"wait_for_service", "call_async"}
            /\ future' = [st |-> "pending", logger_level |-> 0]
            /\ time_ellapsed' \in 0..MaxTick
            /\ pc' = "wait_for_future"
            /\ service_ready' = FALSE
            /\ UNCHANGED warnings
       ELSE /\ rpc' = rpc \cup {"wait_for_service"}
            /\ warnings' = Warn(1)
            /\ UNCHANGED <<pc, future, time_ellapsed, service_ready>>
    /\ UNCHANGED <<current_levels, call, prev, clients, rclpy_ok, request_vars, remote_vars,
                   discovery_vars, widget_vars>>

\* the condition with the test of the elapsed time left out
KeepWaiting_NoTimeout == rclpy_ok /\ future.st = "pending"

\* the condition of the completion wait
KeepWaiting == time_ellapsed < Timeout /\ rclpy_ok /\ future.st = "pending"

\* one evaluation of the `while` of the completion wait: the body reads the
\* clock again, which has not gone back; a false condition ends the loop
WaitForFuture ==
    /\ pc = "wait_for_future"
    /\ IF KeepWaiting
       THEN /\ time_ellapsed' \in time_ellapsed..(time_ellapsed + MaxTick)
            /\ UNCHANGED pc
       ELSE /\ pc' = "check_future"
            /\ UNCHANGED time_ellapsed
    /\ UNCHANGED <<current_levels, call, prev, clients, rpc, warnings, future,
                   service_ready, rclpy_ok, request_vars, remote_vars,
                   discovery_vars, widget_vars>>

\* the end of the call with a single qWarning on failure
SendFinish_OneWarning ==
    /\ pc = "check_future"
    /\ call.op = "send"
    /\ pc' = "idle"
    /\ time_ellapsed' = 0
    /\ IF future.st = "exception"
       THEN call' = Raised(call) /\ UNCHANGED warnings
       ELSE IF future.st = "result"
       THEN call' = Returned(call, TRUE) /\ UNCHANGED warnings
       ELSE call' = Returned(call, FALSE) /\ warnings' = Warn(1)
    /\ UNCHANGED <<current_levels, prev, clients, rpc, future, service_ready, rclpy_ok,
                   request_vars, remote_vars, discovery_vars, widget_vars>>

\* the end of the call returning True for any completed call, a None result included
SendFinish_TrueWhenDone ==
    /\ pc = "check_future"
    /\ call.op = "send"
    /\ pc' = "idle"
    /\ time_ellapsed' = 0
    /\ IF future.st = "exception"
       THEN call' = Raised(call) /\ UNCHANGED warnings
       ELSE IF future.st \in {"result", "empty"}
       THEN call' = Returned(call, TRUE) /\ UNCHANGED warnings
       ELSE call' = Returned(call, FALSE) /\ warnings' = Warn(2)
    /\ UNCHANGED <<current_levels, prev, clients, rpc, future, service_ready, rclpy_ok,
                   request_vars, remote_vars, discovery_vars, widget_vars>>

\* the end of the call caching the requested level whatever the outcome
SendFinish_CachesAlways ==
    /\ pc = "check_future"
    /\ call.op = "send"
    /\ pc' = "idle"
    /\ time_ellapsed' = 0
    /\ current_levels' = DictSet(current_levels, call.node, Upper(call.level))
    /\ IF future.st = "exception"
       THEN call' = Raised(call) /\ UNCHANGED warnings
       ELSE IF future.st = "result"
       THEN call' = Returned(call, TRUE) /\ UNCHANGED warnings
       ELSE call' = Returned(call, FALSE) /\ warnings' = Warn(2)
    /\ UNCHANGED <<prev, clients, rpc, future, service_ready, rclpy_ok, request_vars, remote_vars,
                   discovery_vars, widget_vars>>

\* from `if future.done() and future.result() is not None` to the return of
\* send_logger_change_message; result() raises the exception the call ended with
SendFinish ==
    /\ pc = "check_future"
    /\ call.op = "send"
    /\ pc' = "idle"
    /\ time_ellapsed' = 0
    /\ IF future.st = "exception"
       THEN call' = Raised(call) /\ UNCHANGED warnings
       ELSE IF future.st = "result"
       THEN call' = Returned(call, TRUE) /\ UNCHANGED warnings
       ELSE call' = Returned(call, FALSE) /\ warnings' = Warn(2)
    /\ UNCHANGED <<current_levels, prev, clients, rpc, future, service_ready,
                   rclpy_ok, request_vars, remote_vars,
                   discovery_vars, widget_vars>>

\* the end of the query dropping the node's cached level on failure
GetFinish_ClearsOnFailure ==
    /\ pc = "check_future"
    /\ call.op = "get"
    /\ pc' = "idle"
    /\ time_ellapsed' = 0
    /\ IF future.st = "exception"
       THEN call' = Raised(call) /\ UNCHANGED <<warnings, current_levels>>
       ELSE IF future.st = "result"
       THEN /\ current_levels' =
                   DictSet(current_levels, call.node, LoggingSeverityName(future.logger_level))
            /\ call' = Returned(call, LoggingSeverityName(future.logger_level))
            /\ UNCHANGED warnings
       ELSE /\ call' = Returned(call, S_empty)
            /\ warnings' = Warn(2)
            /\ current_levels' = [k \in DOMAIN current_levels \ {call.node} |-> current_levels[k]]
    /\ UNCHANGED <<prev, clients, rpc, future, service_ready, rclpy_ok,
                   request_vars, remote_vars, discovery_vars, widget_vars>>

\* the end of the query rebuilding the cache from the response alone
GetFinish_ReplacesCache ==
    /\ pc = "check_future"
    /\ call.op = "get"
    /\ pc' = "idle"
    /\ time_ellapsed' = 0
    /\ IF future.st = "exception"
       THEN call' = Raised(call) /\ UNCHANGED <<warnings, current_levels>>
       ELSE IF future.st = "result"
       THEN /\ current_levels' =
                   DictSet(<<>>, call.node, LoggingSeverityName(future.logger_level))
            /\ call' = Returned(call, LoggingSeverityName(future.logger_level))
            /\ UNCHANGED warnings
       ELSE /\ call' = Returned(call, S_empty)
            /\ warnings' = Warn(2)
            /\ UNCHANGED current_levels
    /\ UNCHANGED <<prev, clients, rpc, future, service_ready, rclpy_ok,
                   request_vars, remote_vars, discovery_vars, widget_vars>>

\* the same point of get_logger_level: a result is cached under the node's
\* name and returned as the level's name
GetFinish ==
    /\ pc = "check_future"
    /\ call.op = "get"
    /\ pc' = "idle"
    /\ time_ellapsed' = 0
    /\ IF future.st = "exception"
       THEN call' = Raised(call) /\ UNCHANGED <<warnings, current_levels>>
       ELSE IF future.st = "result"
       THEN /\ current_levels' =
                   DictSet(current_levels, call.node, LoggingSeverityName(future.logger_level))
            /\ call' = Returned(call, LoggingSeverityName(future.logger_level))
            /\ UNCHANGED warnings
       ELSE /\ call' = Returned(call, S_empty)
            /\ warnings' = Warn(2)
            /\ UNCHANGED current_levels
    /\ UNCHANGED <<prev, clients, rpc, future, service_ready, rclpy_ok, request_vars, remote_vars,
                   discovery_vars, widget_vars>>

(***************************************************************************)
(* What happens around the caller's thread.                                *)
(***************************************************************************)
\* the service of the waiting client comes up or goes away
ServiceChanges ==
    /\ pc = "wait_for_service"
    /\ service_ready' = ~service_ready
    /\ UNCHANGED <<current_levels, pc, call, prev, clients, rpc, warnings, future,
                   time_ellapsed, rclpy_ok, request_vars, remote_vars,
                   discovery_vars, widget_vars>>

\* the executor's thread completes the future: with a response, with None,
\* or with the exception the call raised
FutureDone ==
    /\ future.st = "pending"
    /\ \/ \E v \in ResponseLevels : future' = [st |-> "result", logger_level |-> v]
       \/ future' = [st |-> "empty", logger_level |-> 0]
       \/ future' = [st |-> "exception", logger_level |-> 0]
    /\ UNCHANGED <<current_levels, pc, call, prev, clients, rpc, warnings,
                   time_ellapsed, service_ready, rclpy_ok, request_vars, remote_vars,
                   discovery_vars, widget_vars>>

\* rclpy.shutdown()
Shutdown ==
    /\ rclpy_ok
    /\ rclpy_ok' = FALSE
    /\ UNCHANGED <<current_levels, pc, call, prev, clients, rpc, warnings, future,
                   time_ellapsed, service_ready, request_vars, remote_vars,
                   discovery_vars, widget_vars>>

Next ==
    \/ SendBegin
    \/ GetBegin
    \/ WaitForService
    \/ WaitForFuture
    \/ SendFinish
    \/ GetFinish
    \/ ServiceChanges
    \/ FutureDone
    \/ Shutdown

Spec == Init /\ [][Next]_vars

\* the caller's thread runs on: it goes round the completion wait, where the
\* clock it reads advances, and makes the check that follows
FairSpec ==
    /\ Spec
    /\ WF_vars(WaitForFuture)
    /\ WF_vars(SendFinish)
    /\ WF_vars(GetFinish)

(***************************************************************************)
(* The remote node as a process of its own.                                *)
(***************************************************************************)
\* the set_logger_level service of the node the client is bound to executes
\* the dispatched request, at any time while the request is in flight: the
\* logger the request names gets the level the request carries
ServiceExecutes ==
    /\ call.op = "send"
    /\ future.st = "pending"
    /\ ~served
    /\ served' = TRUE
    /\ \E n \in CallNodes :
           /\ cli = SetServiceName(n)
           /\ remote' = [remote EXCEPT ![n] =
                             [logger |-> request.name, level |-> request.logger_level]]
    /\ UNCHANGED <<current_levels, pc, call, prev, clients, rpc, warnings, future,
                   time_ellapsed, service_ready, rclpy_ok, request_vars,
                   discovery_vars, widget_vars>>

NextRemote ==
    \/ Next
    \/ ServiceExecutes

SpecRemote == Init /\ [][NextRemote]_vars

(***************************************************************************)
(* LoggerLevelWidget (src/src/rqt_logger_level/logger_level_widget.py).    *)
(* A list's currentRowChanged signal runs its handler with the new row;    *)
(* clear() makes the current row -1 and runs the handler with -1.          *)
(***************************************************************************)
\* get_levels()
GetLevels == <<S_DEBUG, S_INFO, S_WARN, S_ERROR, S_FATAL>>

\* getattr(LoggingSeverity, name)
LoggingSeverityValue(name) ==
    CASE name = S_UNSET -> 0
      [] name = S_DEBUG -> 10
      [] name = S_INFO -> 20
      [] name = S_WARN -> 30
      [] name = S_ERROR -> 40
      [] name = S_FATAL -> 50

\* node_list.currentItem() is None: its .text() raises AttributeError
AttributeErrorRaised == [name |-> S_empty, level |-> -1]

\* the lists of live node names self._node.get_node_names() may return
GraphNodeLists == UNION {[1..k -> NodeNames] : k \in 0..MaxGraphNodes}

\* refresh_nodes leaving the level list as it is
RefreshNodes_KeepsLevels ==
    \E live \in GraphNodeLists :
        /\ graph_nodes' = live
        /\ listing_current' = FALSE
        /\ node_items' = live
        /\ node_row' = -1
        /\ ui_event' = "refresh"
        /\ UNCHANGED <<level_items, level_row, logging_call, node_names, graph_services,
                       caller_vars>>

\* refresh_nodes, on the refresh button: both lists are cleared (their
\* handlers run with -1 and return) and the node list is filled with the
\* names the rqt node's own get_node_names() reports at that time
RefreshNodes ==
    \E live \in GraphNodeLists :
        /\ graph_nodes' = live
        /\ listing_current' = FALSE
        /\ level_items' = <<>>
        /\ level_row' = -1
        /\ node_items' = live
        /\ node_row' = -1
        /\ ui_event' = "refresh"
        /\ UNCHANGED <<logging_call, node_names, graph_services, caller_vars>>

\* node_changed(row)
NodeChanged(row) ==
    IF row = -1
    THEN ui_event' = "ignored" /\ UNCHANGED <<level_items, level_row>>
    ELSE IF row < 0 \/ row >= Len(node_items)
    THEN ui_event' = "warned" /\ UNCHANGED <<level_items, level_row>>
    ELSE /\ level_items' = GetLevels
         /\ level_row' = -1
         /\ ui_event' = "node_changed"

\* level_changed(row)
LevelChanged(row) ==
    IF row = -1
    THEN ui_event' = "ignored" /\ UNCHANGED logging_call
    ELSE IF row < 0 \/ row >= Len(level_items)
    THEN ui_event' = "warned" /\ UNCHANGED logging_call
    ELSE /\ logging_call' =
                IF node_row = -1 THEN AttributeErrorRaised
                ELSE [name |-> node_items[node_row + 1],
                      level |-> LoggingSeverityValue(Upper(level_items[row + 1]))]
         /\ ui_event' = "level_changed"

\* node_list's currentRowChanged(row): another row becomes current; or the
\* handler is run with a row that is none of the list
NodeRowChanged ==
    \E row \in -2..Len(node_items) :
        /\ IF row >= 0 /\ row < Len(node_items)
           THEN row # node_row /\ node_row' = row
           ELSE UNCHANGED node_row
        /\ NodeChanged(row)
        /\ UNCHANGED <<node_items, logging_call, discovery_vars, caller_vars>>

\* level_list's currentRowChanged(row), likewise
LevelRowChanged ==
    \E row \in -2..Len(level_items) :
        /\ IF row >= 0 /\ row < Len(level_items)
           THEN row # level_row /\ level_row' = row
           ELSE UNCHANGED level_row
        /\ LevelChanged(row)
        /\ UNCHANGED <<node_items, node_row, level_items, discovery_vars, caller_vars>>

NextWidget ==
    \/ RefreshNodes
    \/ NodeRowChanged
    \/ LevelRowChanged

SpecWidget == Init /\ [][NextWidget]_vars

(***************************************************************************)
(* Properties.                                                             *)
(***************************************************************************)
\* two level texts that differ at most in letter case
SameLevel(s, t) == Upper(s) = Upper(t)
\* the last call is a send_logger_change_message that has returned `value`
SendReturned(value) == call.op = "send" /\ call.status = "returned" /\ call.ret = value
\* the call has created no client, made no poll and dispatched no request
NoRpc == rpc = {} /\ clients = call.clients0 /\ future = NoFuture

\* C1: of two successive send_logger_change_message calls with the same node
\* and the same level (any letter case), if the first returned True the second
\* returns False without creating a client, polling or dispatching a request.
C1_SecondSendIsNoOp ==
    (/\ prev.op = "send" /\ prev.status = "returned" /\ prev.ret = TRUE
     /\ call.op = "send" /\ call.node = prev.node /\ SameLevel(call.level, prev.level))
    => (SendReturned(FALSE) /\ NoRpc)

\* C2: after send_logger_change_message(node, L) returned True the cache holds
\* L, in canonical (upper) case, for node.
C2_CacheHoldsLevelAfterTrue ==
    SendReturned(TRUE)
    => (call.node \in DOMAIN current_levels /\ current_levels[call.node] = Upper(call.level))

\* C3: when send_logger_change_message returned False the whole cache is what
\* it was when the call started.
C3_CacheUnchangedAfterFalse ==
    SendReturned(FALSE) => current_levels = call.levels0

\* C3 happens: a False return after a dispatched request, for a node whose
\* cached level is another one, and with another node cached too
C3_Witness ==
    /\ SendReturned(FALSE)
    /\ "call_async" \in rpc
    /\ call.node \in DOMAIN call.levels0
    /\ DOMAIN call.levels0 # {call.node}

\* C4: a send_logger_change_message call that found the requested level cached
\* for the node, case ignored, has returned False at once: no client, no poll,
\* no request, no warning.
C4_GuardReturnsFalseWithoutRpc ==
    (/\ call.op = "send"
     /\ call.node \in DOMAIN call.levels0
     /\ SameLevel(call.levels0[call.node], call.level))
    => (SendReturned(FALSE) /\ NoRpc /\ warnings = 0 /\ pc = "idle")

\* C4 happens: the level is asked for in lower case, the cache holds it in
\* upper case, after an earlier call that did create a client
C4_Witness ==
    /\ call.op = "send"
    /\ call.level = S_debug
    /\ call.node \in DOMAIN call.levels0
    /\ call.levels0[call.node] = S_DEBUG
    /\ call.status = "returned"
    /\ clients > 0

\* the service of node n is advertised with the SetLoggerLevel type
AdvertisesSetLoggerLevel(n) ==
    \E s \in DOMAIN graph_services :
        /\ s = S_slash \o n \o S_set_logger_level
        /\ T_SetLoggerLevel \in Range(graph_services[s])

\* C5: get_node_names() returns exactly the live names whose
\* '/<name>/set_logger_level' service is advertised with the type
\* rcl_interfaces/SetLoggerLevel.
C5_ListsLiveNodesWithService ==
    listing_current
    => Range(node_names) = {n \in Range(graph_nodes) : AdvertisesSetLoggerLevel(n)}

\* C5 happens: a is live and advertises the service; b is live and advertises
\* it with another type only; c advertises it and is not live
C5_Witness ==
    /\ listing_current
    /\ node_names = <<S_a>>
    /\ S_b \in Range(graph_nodes)
    /\ SetServiceName(S_b) \in DOMAIN graph_services
    /\ S_c \notin Range(graph_nodes)
    /\ AdvertisesSetLoggerLevel(S_c)

\* C6: the list get_node_names() returns is in ascending order and holds no
\* name twice.
C6_SortedWithoutDuplicates ==
    listing_current
    => \A i, j \in 1..Len(node_names) : i < j => StrLess(node_names[i], node_names[j])

\* C7: once the request is dispatched, a call that did not get a result (the
\* wait timed out, the result is None, the call raised) ends by returning the
\* failure value after a warning; no exception leaves the operation.
C7_FailuresAreReturnValues ==
    (pc = "idle" /\ "call_async" \in rpc /\ future.st # "result")
    => /\ call.status = "returned"
       /\ warnings > 0
       /\ call.op = "send" => call.ret = FALSE
       /\ call.op = "get" => call.ret = S_empty

\* C8: the shutdown signal is checked on each round of the wait for the
\* service: with shutdown signalled and the service not ready, the wait does
\* not warn and go round again.
C8_ShutdownEndsServiceWait ==
    [][(pc = "wait_for_service" /\ ~rclpy_ok /\ ~service_ready)
       => ~(pc' = "wait_for_service" /\ warnings' > warnings)]_vars

\* C9: once the request is dispatched the operation ends, even if no response
\* ever arrives: the completion wait goes round again only while the elapsed
\* time is below the timeout, no shutdown is signalled and the future is not
\* done.
C9_CompletionWaitEnds ==
    /\ (pc = "wait_for_future") ~> (pc = "idle")
    /\ [][(pc = "wait_for_future" /\ time_ellapsed' # time_ellapsed)
          => (time_ellapsed < Timeout /\ rclpy_ok /\ future.st = "pending")]_vars

\* C9 happens: the wait was left on the timeout alone, and the call returned
C9_Witness ==
    /\ pc = "idle"
    /\ call.status = "returned"
    /\ future.st = "pending"
    /\ rclpy_ok
    /\ "call_async" \in rpc

\* C10: when no call is in progress the node holds no client created by a call.
C10_ClientsReleased == pc = "idle" => clients = 0

\* the step that ends a dispatched call: the check of the future and the return
FinishStep(op) == pc = "check_future" /\ pc' = "idle" /\ call.op = op

C12_FailedGetLeavesCache ==
    [][(FinishStep("get") /\ future.st \in {"pending", "empty"})
       => (/\ call'.status = "returned" /\ call'.ret = S_empty
           /\ current_levels' = current_levels
           /\ current_levels' = call.levels0)]_vars

\* C12 happens: the failed query is about a node with a cached level, another
\* node being cached too
C12_Witness ==
    /\ pc = "idle" /\ call.op = "get" /\ call.status = "returned"
    /\ call.ret = S_empty
    /\ call.node \in DOMAIN current_levels
    /\ DOMAIN current_levels # {call.node}

\* C13: a get_logger_level query that completes with a response caches the
\* name of the response's level under the node, returns that name and leaves
\* the entries of the other nodes as they were.
C13_GetCachesResponse ==
    [][(FinishStep("get") /\ future.st = "result")
       => (/\ call'.status = "returned"
           /\ call'.ret = LoggingSeverityName(future.logger_level)
           /\ DOMAIN current_levels' = DOMAIN current_levels \cup {call.node}
           /\ current_levels'[call.node] = call'.ret
           /\ \A n \in DOMAIN current_levels \ {call.node} :
                  current_levels'[n] = current_levels[n])]_vars

\* C13 happens: the response replaces another cached level of the node, with
\* another node cached
C13_Witness ==
    /\ pc = "idle" /\ call.op = "get" /\ call.status = "returned"
    /\ call.ret = S_INFO
    /\ call.node \in DOMAIN call.levels0
    /\ call.levels0[call.node] = S_DEBUG
    /\ DOMAIN current_levels # {call.node}

\* the level code of a level text, whatever its letter case
LevelCode(level) ==
    CASE SameLevel(level, S_DEBUG) -> 10
      [] SameLevel(level, S_INFO) -> 20
      [] SameLevel(level, S_WARN) -> 30
      [] SameLevel(level, S_ERROR) -> 40
      [] SameLevel(level, S_FATAL) -> 50

\* C14: the request send_logger_change_message(n, L) dispatches goes to
\* '/n/set_logger_level', names n in its name field and carries the level
\* code of L.
C14_RequestNamesNode ==
    (call.op = "send" /\ "call_async" \in rpc)
    => (/\ cli = S_slash \o call.node \o S_set_logger_level
        /\ request.name = call.node
        /\ request.logger_level = LevelCode(call.level))

\* C17: send_logger_change_message returns True only if the guard did not
\* apply, the service was found available, the request was dispatched and the
\* future was done with a result at the check; every other return is False.
C17_TrueOnlyAfterResult ==
    /\ [](SendReturned(TRUE)
          => (/\ ~(call.node \in DOMAIN call.levels0
                   /\ SameLevel(call.levels0[call.node], call.level))
              /\ rpc = {"create_client", "wait_for_service", "call_async"}
              /\ future.st = "result"))
    /\ [][(call' # call /\ call'.op = "send" /\ call'.status = "returned")
          => (call'.ret = (pc = "check_future" /\ future.st = "result"))]_vars

\* C17 happens: a call returned True
C17_Witness == SendReturned(TRUE) /\ pc = "idle"

\* C18: send_logger_change_message(node, L) is skipped by the guard only if
\* the level last observed (a get that returned it) or applied (a send that
\* returned True) for node is L, case ignored; stated for the call made just
\* before.
C18_SkipMatchesLastKnownLevel ==
    (/\ call.op = "send" /\ call.status = "returned" /\ rpc = {}
     /\ prev.status = "returned" /\ prev.node = call.node
     /\ \/ (prev.op = "send" /\ prev.ret = TRUE)
        \/ (prev.op = "get" /\ prev.ret # S_empty))
    => SameLevel(call.level, IF prev.op = "send" THEN prev.level ELSE prev.ret)

\* a send_logger_change_message call has returned False with its request
\* dispatched and the future still pending: the wait was given up
GaveUpWaiting ==
    SendReturned(FALSE) /\ pc = "idle" /\ "call_async" \in rpc /\ future.st = "pending"

\* C19 as claimed: after send_logger_change_message returned False on a
\* timeout, the remote node's level does not change any more.
C19_NoEffectAfterFalse == [][GaveUpWaiting => remote' = remote]_vars

\* C19 as amended: the timeout gives up the wait, not the request, so the
\* remote level may still change after the False return; it changes only by
\* the service executing the pending request of a send call, once, setting
\* the logger the request names at the called node to the code of the
\* requested level, and the cache does not change with it.
C19_RemoteChangesOnlyByRequest ==
    [][remote' # remote
       => (/\ call.op = "send" /\ "call_async" \in rpc /\ future.st = "pending"
           /\ ~served /\ served'
           /\ remote' = [remote EXCEPT ![call.node] =
                            [logger |-> request.name, level |-> LevelCode(call.level)]]
           /\ current_levels' = current_levels)]_vars

\* C19 happens: the call gave up waiting and its request was executed
C19_Witness ==
    /\ GaveUpWaiting
    /\ served
    /\ remote[call.node].level = LevelCode(call.level)

\* C15: every level change asked for in the widget (level_changed with a
\* valid row) is a call of send_logger_change_message for the selected node
\* and level.
C15_LevelChangeGoesThroughCaller ==
    [][(ui_event' = "level_changed")
       => (/\ call' # call
           /\ call'.op = "send"
           /\ call'.node = node_items[node_row + 1]
           /\ SameLevel(call'.level, level_items[level_row' + 1]))]_vars

\* C16: after refresh_nodes the node list shows what the service caller's
\* get_node_names() returns for the ROS graph of that time.
C16_ListShowsCapableNodes ==
    ui_event = "refresh"
    => node_items = CollectNodeNames(Sorted(graph_nodes), Dict(ServiceList(graph_services, 1)))

\* C20: the level list is non-empty only if the node list has a current item,
\* so level_changed with a valid row finds a selected node; a handler run
\* with row -1 or with a row out of range changes neither list, nor a current
\* row, nor any logger level.
C20_LevelsOnlyWithCurrentNode ==
    /\ [](level_items # <<>> => (node_row >= 0 /\ node_row < Len(node_items)))
    /\ [](logging_call # AttributeErrorRaised)
    /\ [][ui_event' \in {"ignored", "warned"}
          => UNCHANGED <<node_items, node_row, level_items, level_row, logging_call>>]_vars

\* C20 happens: with a node selected and a level set, a handler was run with
\* a row out of range
C20_Witness ==
    /\ ui_event = "warned"
    /\ level_items # <<>>
    /\ level_row = 4
    /\ logging_call.name = S_b
    /\ logging_call.level = 50

====
